---- MODULE Spec2Model ----
(***************************************************************************)
(* Model of the concertify audio engine (class AudioProcessor) and of the  *)
(* Web Audio node graph it builds.  Gains are in hundredths (100 = 1.0),   *)
(* effect amounts in hundredths (50 = 0.5), filter gains in whole dB, and  *)
(* transport time in whole ticks of the context clock.                     *)
(***************************************************************************)
EXTENDS Integers, Sequences, FiniteSets, TLC

\* ---------------------------------------------------------------- bounds
MaxBuilds == 2      \* graphs built by play()
MaxContexts == 2    \* AudioContexts created by initialize()
MaxLoads == 2       \* loadAudioFile calls issued
MaxTime == 2        \* ticks a context clock advances
MaxExports == 2     \* exportProcessedAudio calls issued
MaxFrames == 2      \* sample frames in a buffer handed to the sample-level functions
MaxLoops == 3       \* frame callbacks of the AudioPlayer pending at a time
ExportMaxLoads == 1   \* loadAudioFile calls issued in a session that exports
ExportMaxBuilds == 1  \* graphs built in a session that exports

\* ----------------------------------------------------------- basic values
NULL == <<>>        \* a null node or buffer reference
NoContext == 0      \* audioContext === null

Files == {"mono", "stereo"}

NumChannels(buffer) == IF buffer[1] = "stereo" THEN 2 ELSE 1

Unity == 100

NumVoices == 6

VoiceGain == 25

Settings ==
  { [reverbAmount |-> 0,  bassBoost |-> 0, presence |-> 0, maleChorus |-> 0,  femaleChorus |-> 0],
    [reverbAmount |-> 50, bassBoost |-> 3, presence |-> 2, maleChorus |-> 0,  femaleChorus |-> 0],
    [reverbAmount |-> 0,  bassBoost |-> 0, presence |-> 0, maleChorus |-> 50, femaleChorus |-> 100] }

\* amount x 0.4, in hundredths
ChorusMixGain(amount) == (amount * 2) \div 5

Node(kind, g, i) == <<kind, g, i>>

Destination(ctx) == Node("destination", ctx, 0)

\* ------------------------------------------------------------------ state
VARIABLES
  audioContext,        \* NoContext or the id of the current AudioContext
  convolverNode,       \* NULL or the convolver holding the session's impulse
  audioBuffer,         \* NULL or <<file, load id>>
  vocalBuffer,         \* NULL or <<"vocal", source buffer>>
  sourceNode, gainNode, dryGainNode, wetGainNode, bassFilter, presenceFilter,
  channelSplitter, channelMerger,
  channelGainNodes,    \* sequence of gain nodes, one per channel
  channelStates,       \* sequence of BOOLEAN
  maleChorusNodes, femaleChorusNodes,       \* sequences of [source, delay, gain]
  maleChorusMixGain, femaleChorusMixGain,
  isPlaying, startTime, pauseTime,
  \* the Web Audio world the engine acts on
  edges,               \* set of <<from node, to node>> connections
  gain,                \* node -> value of its gain parameter
  playing,             \* source node -> start offset, for started, not stopped sources
  srcBuffer,           \* source node -> the buffer it plays
  closed,              \* set of closed contexts
  ctxCount,            \* contexts created so far
  gen,                 \* graphs built so far
  now,                 \* currentTime of the current context
  \* calls in flight and history
  loads,               \* set of [id, pc] loadAudioFile calls in flight
  loadSeq,             \* loadAudioFile calls issued so far
  lastSettings,        \* settings last applied to the live graph, NULL when torn down
  exports,             \* offline renders in flight
  exportSeq,           \* exportProcessedAudio calls issued so far
  exportResult,        \* how the export call that settled last ended, NULL before any
  \* the sample-level functions, applied to one buffer of samples
  dspInput,            \* NULL or the buffer of samples the functions are applied to
  dspOutput,           \* NULL or what the function applied last returned
  \* the AudioPlayer component driving the engine
  player,              \* its state, its animationFrameRef and the frame callbacks pending
  appCurrentTime,      \* currentTime of the App component
  \* the Waveform component
  waveform             \* its audioBuffer prop and its channelStates

fields == <<audioContext, convolverNode, audioBuffer, vocalBuffer,
            sourceNode, gainNode, dryGainNode, wetGainNode, bassFilter, presenceFilter,
            channelSplitter, channelMerger, channelGainNodes, channelStates,
            maleChorusNodes, femaleChorusNodes, maleChorusMixGain, femaleChorusMixGain,
            isPlaying, startTime, pauseTime>>

world == <<edges, gain, playing, srcBuffer, closed, ctxCount, gen, now>>

exportVars == <<exports, exportSeq, exportResult>>

dspVars == <<dspInput, dspOutput>>

uiVars == <<player, appCurrentTime, waveform>>

vars == <<fields, world, loads, loadSeq, lastSettings, exportVars, dspVars, uiVars>>

\* The engine and its world as one record, so that a method is a function
\* from the record before the call to the record after it.
This ==
  [audioContext |-> audioContext, convolverNode |-> convolverNode,
   audioBuffer |-> audioBuffer, vocalBuffer |-> vocalBuffer,
   sourceNode |-> sourceNode, gainNode |-> gainNode,
   dryGainNode |-> dryGainNode, wetGainNode |-> wetGainNode,
   bassFilter |-> bassFilter, presenceFilter |-> presenceFilter,
   channelSplitter |-> channelSplitter, channelMerger |-> channelMerger,
   channelGainNodes |-> channelGainNodes, channelStates |-> channelStates,
   maleChorusNodes |-> maleChorusNodes, femaleChorusNodes |-> femaleChorusNodes,
   maleChorusMixGain |-> maleChorusMixGain, femaleChorusMixGain |-> femaleChorusMixGain,
   isPlaying |-> isPlaying, startTime |-> startTime, pauseTime |-> pauseTime,
   edges |-> edges, gain |-> gain, playing |-> playing, srcBuffer |-> srcBuffer,
   closed |-> closed, ctxCount |-> ctxCount, gen |-> gen, now |-> now]

Commit(t) ==
  /\ audioContext' = t.audioContext /\ convolverNode' = t.convolverNode
  /\ audioBuffer' = t.audioBuffer /\ vocalBuffer' = t.vocalBuffer
  /\ sourceNode' = t.sourceNode /\ gainNode' = t.gainNode
  /\ dryGainNode' = t.dryGainNode /\ wetGainNode' = t.wetGainNode
  /\ bassFilter' = t.bassFilter /\ presenceFilter' = t.presenceFilter
  /\ channelSplitter' = t.channelSplitter /\ channelMerger' = t.channelMerger
  /\ channelGainNodes' = t.channelGainNodes /\ channelStates' = t.channelStates
  /\ maleChorusNodes' = t.maleChorusNodes /\ femaleChorusNodes' = t.femaleChorusNodes
  /\ maleChorusMixGain' = t.maleChorusMixGain /\ femaleChorusMixGain' = t.femaleChorusMixGain
  /\ isPlaying' = t.isPlaying /\ startTime' = t.startTime /\ pauseTime' = t.pauseTime
  /\ edges' = t.edges /\ gain' = t.gain /\ playing' = t.playing /\ srcBuffer' = t.srcBuffer
  /\ closed' = t.closed /\ ctxCount' = t.ctxCount /\ gen' = t.gen /\ now' = t.now

\* ------------------------------------------------------- Web Audio helpers
SetGain(G, n, v) == [m \in (DOMAIN G) \cup {n} |-> IF m = n THEN v ELSE G[m]]

SetBuffer(B, n, buffer) == [m \in (DOMAIN B) \cup {n} |-> IF m = n THEN buffer ELSE B[m]]

Range(s) == {s[i] : i \in DOMAIN s}

VoiceSources(voices) == {v.source : v \in Range(voices)}

VoiceParts(voices) == UNION {{v.source, v.delay, v.gain} : v \in Range(voices)}

\* node.disconnect() on each of the nodes: drops their outgoing connections
DisconnectAll(E, nodes) == {e \in E : e[1] \notin nodes}

\* source.stop() on each of the sources (a stop() that throws is swallowed)
StopAll(P, nodes) == [m \in (DOMAIN P) \ nodes |-> P[m]]

\* A node that is disconnected and no longer referenced is garbage: its
\* parameters are dropped from the world.
Forget(F, nodes) == [m \in (DOMAIN F) \ nodes |-> F[m]]


\* ------------------------------------------------------------ the methods
\* initialize(): a new AudioContext, then createImpulseResponse() builds the
\* session's convolver in it.  The new context's clock starts at 0.
initialize(t) ==
  LET ctx == t.ctxCount + 1 IN
  [t EXCEPT !.ctxCount = ctx, !.audioContext = ctx,
            !.convolverNode = Node("convolver", ctx, 0), !.now = 0]

\* the sources cleanup() stops: the main source and every chorus voice source
CleanupSources(t) ==
  {t.sourceNode} \cup VoiceSources(t.maleChorusNodes) \cup VoiceSources(t.femaleChorusNodes)

\* the nodes cleanup() disconnects
CleanupNodes(t) ==
  ({t.sourceNode} \cup Range(t.channelGainNodes)
     \cup {t.channelSplitter, t.channelMerger}
     \cup VoiceParts(t.maleChorusNodes) \cup VoiceParts(t.femaleChorusNodes)
     \cup {t.maleChorusMixGain, t.femaleChorusMixGain}) \ {NULL}

\* the field resets of cleanup(), having stopped `sources` and disconnected `nodes`
CleanupFields(t, sources, nodes) ==
  [t EXCEPT !.playing = StopAll(t.playing, sources),
            !.edges = DisconnectAll(t.edges, nodes),
            !.gain = Forget(t.gain, nodes),
            !.srcBuffer = Forget(t.srcBuffer, nodes),
            !.sourceNode = NULL,
            !.channelGainNodes = <<>>,
            !.channelSplitter = NULL,
            !.channelMerger = NULL,
            !.maleChorusNodes = <<>>,
            !.maleChorusMixGain = NULL,
            !.femaleChorusNodes = <<>>,
            !.femaleChorusMixGain = NULL,
            !.vocalBuffer = NULL]

\* a cleanup() that forgets to stop the sources it drops
cleanupNoStop(t) == CleanupFields(t, {}, CleanupNodes(t))

\* a cleanup() that stops the sources but leaves every node connected
cleanupKeepConnected(t) == CleanupFields(t, CleanupSources(t), {})

\* cleanup(): stops and disconnects the main source, the channel nodes, the
\* chorus voices and the chorus mix buses, and drops the vocal buffer.
cleanup(t) == CleanupFields(t, CleanupSources(t), CleanupNodes(t))

\* setupChannelGainNodes() for the graph of generation g
setupChannelGainNodes(t, g) ==
  IF t.audioContext = NoContext \/ t.audioBuffer = NULL THEN t
  ELSE
    LET n == NumChannels(t.audioBuffer)
        cg(i) == Node("channelGain", g, i)
        splitter == Node("splitter", g, 0)
        merger == Node("merger", g, 0)
        t1 == [t EXCEPT !.channelGainNodes = <<>>,
                        !.channelStates = [i \in 1..n |-> TRUE]]
    IN IF n > 1
       THEN [t1 EXCEPT !.channelSplitter = splitter,
                       !.channelMerger = merger,
                       !.channelGainNodes = [i \in 1..n |-> cg(i)],
                       !.gain = [m \in (DOMAIN t.gain) \cup {cg(i) : i \in 1..n} |->
                                   IF m \in DOMAIN t.gain THEN t.gain[m] ELSE Unity],
                       !.edges = t.edges \cup {<<splitter, cg(i)>> : i \in 1..n}
                                         \cup {<<cg(i), merger>> : i \in 1..n}]
       ELSE t1

\* createVocalIsolation()
createVocalIsolation(t) ==
  IF t.audioContext = NoContext \/ t.audioBuffer = NULL \/ t.vocalBuffer # NULL THEN t
  ELSE [t EXCEPT !.vocalBuffer = <<"vocal", t.audioBuffer>>]

\* One chorus part of setupVocalChorus(): NumVoices voices source -> delay ->
\* gain -> mix bus -> master gain, the mix bus gained at amount x 0.4.
ChorusPart(t, g, part, amount) ==
  LET src(i) == Node(part \o "Source", g, i)
      dly(i) == Node(part \o "Delay", g, i)
      vg(i) == Node(part \o "Gain", g, i)
      mix == Node(part \o "Mix", g, 0)
      I == 1..NumVoices
      buf == IF t.vocalBuffer # NULL THEN t.vocalBuffer ELSE t.audioBuffer
      voices == [i \in I |-> [source |-> src(i), delay |-> dly(i), gain |-> vg(i)]]
      E == t.edges \cup {<<src(i), dly(i)>> : i \in I} \cup {<<dly(i), vg(i)>> : i \in I}
                   \cup {<<vg(i), mix>> : i \in I}
                   \cup (IF t.gainNode # NULL THEN {<<mix, t.gainNode>>} ELSE {})
      G == [m \in (DOMAIN t.gain) \cup {mix} \cup {vg(i) : i \in I} |->
              IF m = mix THEN ChorusMixGain(amount)
              ELSE IF m \in {vg(i) : i \in I} THEN VoiceGain ELSE t.gain[m]]
      B == [m \in (DOMAIN t.srcBuffer) \cup {src(i) : i \in I} |->
              IF m \in {src(i) : i \in I} THEN buf ELSE t.srcBuffer[m]]
      t1 == [t EXCEPT !.edges = E, !.gain = G, !.srcBuffer = B]
  IN IF part = "male"
     THEN [t1 EXCEPT !.maleChorusMixGain = mix, !.maleChorusNodes = voices]
     ELSE [t1 EXCEPT !.femaleChorusMixGain = mix, !.femaleChorusNodes = voices]

\* a setupVocalChorus() that builds a part's voices only for amounts above 0.5
setupVocalChorusLoudOnly(t, g, settings) ==
  IF t.audioContext = NoContext \/ t.audioBuffer = NULL THEN t
  ELSE IF settings.maleChorus = 0 /\ settings.femaleChorus = 0 THEN t
  ELSE
    LET t1 == IF t.vocalBuffer = NULL THEN createVocalIsolation(t) ELSE t
        t2 == IF settings.maleChorus > 50
              THEN ChorusPart(t1, g, "male", settings.maleChorus) ELSE t1
    IN IF settings.femaleChorus > 50
       THEN ChorusPart(t2, g, "female", settings.femaleChorus) ELSE t2

\* setupVocalChorus(settings)
setupVocalChorus(t, g, settings) ==
  IF t.audioContext = NoContext \/ t.audioBuffer = NULL THEN t
  ELSE IF settings.maleChorus = 0 /\ settings.femaleChorus = 0 THEN t
  ELSE
    LET t1 == IF t.vocalBuffer = NULL THEN createVocalIsolation(t) ELSE t
        t2 == IF settings.maleChorus > 0
              THEN ChorusPart(t1, g, "male", settings.maleChorus) ELSE t1
    IN IF settings.femaleChorus > 0
       THEN ChorusPart(t2, g, "female", settings.femaleChorus) ELSE t2

\* setupAudioGraph(settings)
setupAudioGraph(t, settings) ==
  IF t.audioContext = NoContext \/ t.audioBuffer = NULL THEN t
  ELSE
    LET g == t.gen + 1
        source == Node("source", g, 0)
        master == Node("gain", g, 0)
        dry == Node("dryGain", g, 0)
        wet == Node("wetGain", g, 0)
        bass == Node("bassFilter", g, 0)
        presence == Node("presenceFilter", g, 0)
        t1 == cleanup(t)
        t2 == [t1 EXCEPT !.gen = g,
                         !.sourceNode = source,
                         !.srcBuffer = SetBuffer(t1.srcBuffer, source, t1.audioBuffer),
                         !.gainNode = master,
                         !.dryGainNode = dry,
                         !.wetGainNode = wet,
                         !.gain = SetGain(t1.gain, master, Unity)]
        t3 == setupChannelGainNodes(t2, g)
        G == SetGain(SetGain(SetGain(SetGain(t3.gain,
                 bass, settings.bassBoost),
                 presence, settings.presence),
                 dry, Unity - settings.reverbAmount),
                 wet, settings.reverbAmount)
        E == t3.edges
               \cup (IF t3.channelSplitter # NULL /\ t3.channelMerger # NULL
                     THEN {<<source, t3.channelSplitter>>, <<t3.channelMerger, bass>>}
                     ELSE {<<source, bass>>})
               \cup {<<bass, presence>>, <<presence, dry>>, <<dry, master>>}
               \cup (IF t3.convolverNode # NULL
                     THEN {<<presence, t3.convolverNode>>, <<t3.convolverNode, wet>>}
                     ELSE {})
               \cup {<<wet, master>>, <<master, Destination(t3.audioContext)>>}
        t4 == [t3 EXCEPT !.bassFilter = bass, !.presenceFilter = presence,
                         !.gain = G, !.edges = E]
    IN setupVocalChorus(t4, g, settings)

\* a play() without its guard against a missing context or buffer
playUnguarded(t, settings) ==
  [setupAudioGraph(t, settings) EXCEPT !.startTime = t.now - t.pauseTime,
                                       !.isPlaying = TRUE]

\* a play() that starts the main source at the paused offset but every chorus
\* voice at the start of the buffer
playVoicesFromStart(t, settings) ==
  IF t.audioContext = NoContext \/ t.audioBuffer = NULL THEN t
  ELSE
    LET t1 == setupAudioGraph(t, settings)
        offset == t1.pauseTime
        voices == VoiceSources(t1.maleChorusNodes) \cup VoiceSources(t1.femaleChorusNodes)
        sources == {t1.sourceNode} \cup voices
    IN IF offset < 0 THEN t1
       ELSE [t1 EXCEPT !.playing = [m \in (DOMAIN t1.playing) \cup sources |->
                                     IF m \in voices THEN 0
                                     ELSE IF m \in sources THEN offset ELSE t1.playing[m]],
                       !.startTime = t1.now - offset,
                       !.isPlaying = TRUE]

\* play(settings).  start(0, offset) raises a RangeError for a negative
\* offset: play() then ends after setupAudioGraph, nothing started.
play(t, settings) ==
  IF t.audioContext = NoContext \/ t.audioBuffer = NULL THEN t
  ELSE
    LET t1 == setupAudioGraph(t, settings)
        offset == t1.pauseTime
        sources == (IF t1.sourceNode # NULL THEN {t1.sourceNode} ELSE {})
                     \cup VoiceSources(t1.maleChorusNodes)
                     \cup VoiceSources(t1.femaleChorusNodes)
    IN IF offset < 0 THEN t1
       ELSE [t1 EXCEPT !.playing = [m \in (DOMAIN t1.playing) \cup sources |->
                                     IF m \in sources THEN offset ELSE t1.playing[m]],
                       !.startTime = t1.now - offset,
                       !.isPlaying = TRUE]

\* a pause() that does not record the position
pauseNoRecord(t) ==
  IF ~t.isPlaying \/ t.audioContext = NoContext THEN t
  ELSE [cleanup(t) EXCEPT !.isPlaying = FALSE]

\* a pause() without its guard against a halted or released engine
pauseUnguarded(t) ==
  [cleanup([t EXCEPT !.pauseTime = t.now - t.startTime]) EXCEPT !.isPlaying = FALSE]

\* pause()
pause(t) ==
  IF ~t.isPlaying \/ t.audioContext = NoContext THEN t
  ELSE [cleanup([t EXCEPT !.pauseTime = t.now - t.startTime]) EXCEPT !.isPlaying = FALSE]

\* a stop() that keeps the paused offset
stopKeepOffset(t) ==
  [cleanup(t) EXCEPT !.startTime = 0, !.isPlaying = FALSE]

\* a stop() that also drops the session's convolver and impulse
stopDropsImpulse(t) ==
  [cleanup(t) EXCEPT !.pauseTime = 0, !.startTime = 0, !.isPlaying = FALSE,
                     !.convolverNode = NULL]

\* stop()
stop(t) ==
  [cleanup(t) EXCEPT !.pauseTime = 0, !.startTime = 0, !.isPlaying = FALSE]

\* The gain patches of updateEffects(settings): each is applied when its node
\* and the context exist.
PatchGain(t, G, n, v) ==
  IF n # NULL /\ t.audioContext # NoContext THEN SetGain(G, n, v) ELSE G

\* the parameter writes of updateEffects(settings)
EffectGains(t, settings) ==
  LET G1 == PatchGain(t, t.gain, t.dryGainNode, Unity - settings.reverbAmount)
      G2 == PatchGain(t, G1, t.wetGainNode, settings.reverbAmount)
      G3 == PatchGain(t, G2, t.bassFilter, settings.bassBoost)
      G4 == PatchGain(t, G3, t.presenceFilter, settings.presence)
      G5 == PatchGain(t, G4, t.maleChorusMixGain, ChorusMixGain(settings.maleChorus))
  IN PatchGain(t, G5, t.femaleChorusMixGain, ChorusMixGain(settings.femaleChorus))

\* an updateEffects() that re-enables every channel as a rebuild would
updateEffectsResetChannels(t, settings) ==
  IF ~t.isPlaying THEN t
  ELSE [t EXCEPT !.gain = [m \in DOMAIN EffectGains(t, settings) |->
                             IF m \in Range(t.channelGainNodes) THEN Unity
                             ELSE EffectGains(t, settings)[m]],
                 !.channelStates = [i \in DOMAIN t.channelStates |-> TRUE]]

\* an updateEffects() that patches the reverb mix but not the tone filters
updateEffectsReverbOnly(t, settings) ==
  IF ~t.isPlaying THEN t
  ELSE [t EXCEPT !.gain =
          PatchGain(t, PatchGain(t, t.gain, t.dryGainNode, Unity - settings.reverbAmount),
                    t.wetGainNode, settings.reverbAmount)]

\* updateEffects(settings)
updateEffects(t, settings) ==
  IF ~t.isPlaying THEN t
  ELSE [t EXCEPT !.gain = EffectGains(t, settings)]

\* setChannelState(channelIndex, enabled); channelIndex counts from 0
setChannelState(t, channelIndex, enabled) ==
  IF channelIndex < 0 \/ channelIndex >= Len(t.channelStates) THEN t
  ELSE
    LET i == channelIndex + 1
        t1 == [t EXCEPT !.channelStates[i] = enabled]
    IN IF i \in DOMAIN t.channelGainNodes /\ t.audioContext # NoContext
       THEN [t1 EXCEPT !.gain = SetGain(t.gain, t.channelGainNodes[i],
                                        IF enabled THEN Unity ELSE 0)]
       ELSE t1

\* a dispose() that closes the context without tearing the graph down
disposeNoCleanup(t) ==
  IF t.audioContext # NoContext
  THEN [t EXCEPT !.closed = t.closed \cup {t.audioContext}, !.audioContext = NoContext,
                 !.edges = {}, !.gain = <<>>, !.srcBuffer = <<>>]
  ELSE t

\* dispose(): audioContext.close() ends all processing in the context, so the
\* world keeps no wiring or parameters of its nodes (every node of the world
\* belongs to the one open context).
dispose(t) ==
  LET t1 == cleanup(t) IN
  IF t1.audioContext # NoContext
  THEN [t1 EXCEPT !.closed = t1.closed \cup {t1.audioContext}, !.audioContext = NoContext,
                  !.edges = {}, !.gain = <<>>, !.srcBuffer = <<>>]
  ELSE t1

\* getCurrentTime()
getCurrentTime(t) ==
  IF t.audioContext = NoContext THEN 0
  ELSE IF t.isPlaying THEN t.now - t.startTime
  ELSE t.pauseTime

\* getChannelStates()
getChannelStates(t) == t.channelStates

\* getIsPlaying()
getIsPlaying(t) == t.isPlaying

\* the duration of a decoded buffer, in ticks
BufferDuration(buffer) == IF buffer[1] = "stereo" THEN 2 ELSE 1

\* getDuration()
getDuration(t) == IF t.audioBuffer = NULL THEN 0 ELSE BufferDuration(t.audioBuffer)

\* a node of the OfflineAudioContext of export call id; live graphs have
\* generations from 1, offline nodes are of generation 0
OfflineNode(kind, id) == Node(kind, 0, id)

\* The offline graph exportProcessedAudio builds for a buffer of the given
\* channel count: source -> bass -> presence -> dry -> gain -> destination and
\* presence -> convolver -> wet -> gain, the convolver holding an impulse
\* synthesized for this render.
\* an offline graph whose dry and wet gains are exchanged
OfflineGraphWetDry(id, buffer, numberOfChannels, settings) ==
  LET n(kind) == OfflineNode(kind, id) IN
  [id |-> id,
   numberOfChannels |-> numberOfChannels,
   buffer |-> buffer,
   impulse |-> n("impulse"),
   srcBuffer |-> (n("source") :> buffer),
   gain |-> (n("bassFilter") :> settings.bassBoost)
              @@ (n("presenceFilter") :> settings.presence)
              @@ (n("dryGain") :> settings.reverbAmount)
              @@ (n("wetGain") :> Unity - settings.reverbAmount)
              @@ (n("gain") :> Unity),
   edges |-> {<<n("source"), n("bassFilter")>>,
              <<n("bassFilter"), n("presenceFilter")>>,
              <<n("presenceFilter"), n("dryGain")>>,
              <<n("presenceFilter"), n("convolver")>>,
              <<n("dryGain"), n("gain")>>,
              <<n("convolver"), n("wetGain")>>,
              <<n("wetGain"), n("gain")>>,
              <<n("gain"), n("destination")>>},
   playing |-> (n("source") :> 0)]

OfflineGraph(id, buffer, numberOfChannels, settings) ==
  LET n(kind) == OfflineNode(kind, id) IN
  [id |-> id,
   numberOfChannels |-> numberOfChannels,
   buffer |-> buffer,
   impulse |-> n("impulse"),
   srcBuffer |-> (n("source") :> buffer),
   gain |-> (n("bassFilter") :> settings.bassBoost)
              @@ (n("presenceFilter") :> settings.presence)
              @@ (n("dryGain") :> Unity - settings.reverbAmount)
              @@ (n("wetGain") :> settings.reverbAmount)
              @@ (n("gain") :> Unity),
   edges |-> {<<n("source"), n("bassFilter")>>,
              <<n("bassFilter"), n("presenceFilter")>>,
              <<n("presenceFilter"), n("dryGain")>>,
              <<n("presenceFilter"), n("convolver")>>,
              <<n("dryGain"), n("gain")>>,
              <<n("convolver"), n("wetGain")>>,
              <<n("wetGain"), n("gain")>>,
              <<n("gain"), n("destination")>>},
   playing |-> (n("source") :> 0)]

ExportError == [error |-> "No audio loaded"]

\* an export that renders whether or not a buffer is loaded
exportUnguarded(t, settings, id) ==
  [error |-> FALSE, render |-> OfflineGraph(id, t.audioBuffer, 0, settings)]

\* an export that renders through the live session's convolver and impulse
exportSharedConvolver(t, settings, id) ==
  IF t.audioContext = NoContext \/ t.audioBuffer = NULL
  THEN [error |-> TRUE, render |-> NULL]
  ELSE LET x == OfflineGraph(id, t.audioBuffer, NumChannels(t.audioBuffer), settings)
           swap(n) == IF n = OfflineNode("convolver", id) THEN t.convolverNode ELSE n
       IN [error |-> FALSE,
           render |-> [x EXCEPT !.impulse = t.convolverNode,
                                !.edges = {<<swap(e[1]), swap(e[2])>> : e \in x.edges}]]

\* exportProcessedAudio(settings) up to await startRendering(): throws, or has
\* an offline graph rendering.  The engine is not written to.
exportProcessedAudio(t, settings, id) ==
  IF t.audioContext = NoContext \/ t.audioBuffer = NULL
  THEN [error |-> TRUE, render |-> NULL]
  ELSE [error |-> FALSE,
        render |-> OfflineGraph(id, t.audioBuffer, NumChannels(t.audioBuffer), settings)]

\* audioBufferToWav(renderedBuffer): the WAVE blob of a rendered buffer
audioBufferToWav(rendered) ==
  [type |-> "audio/wav", numberOfChannels |-> rendered.numberOfChannels,
   rendered |-> rendered]

\* ------------------------------------------------------------------ actions
NoGraph ==
  /\ sourceNode = NULL /\ gainNode = NULL /\ dryGainNode = NULL /\ wetGainNode = NULL
  /\ bassFilter = NULL /\ presenceFilter = NULL
  /\ channelSplitter = NULL /\ channelMerger = NULL
  /\ channelGainNodes = <<>> /\ channelStates = <<>>
  /\ maleChorusNodes = <<>> /\ femaleChorusNodes = <<>>
  /\ maleChorusMixGain = NULL /\ femaleChorusMixGain = NULL

\* the AudioPlayer's useState and useRef initial values, no frame requested
Unmounted ==
  [isPlaying |-> FALSE, currentTime |-> 0, duration |-> 0, isTimerActive |-> FALSE,
   animationFrameRef |-> 0, frames |-> {}]

\* the Waveform before the App has a buffer: useState([]) and no audioBuffer
NoWaveform == [audioBuffer |-> NULL, channelStates |-> <<>>]

\* the Waveform's effect on [audioBuffer]: every channel enabled
ShowBuffer(buffer) ==
  [audioBuffer |-> buffer,
   channelStates |-> [i \in 1..NumChannels(buffer) |-> TRUE]]

\* new AudioProcessor(): every field at its initializer
Init ==
  /\ audioContext = NoContext /\ convolverNode = NULL
  /\ audioBuffer = NULL /\ vocalBuffer = NULL
  /\ NoGraph
  /\ isPlaying = FALSE /\ startTime = 0 /\ pauseTime = 0
  /\ edges = {} /\ gain = <<>> /\ playing = <<>> /\ srcBuffer = <<>>
  /\ closed = {} /\ ctxCount = 0 /\ gen = 0 /\ now = 0
  /\ loads = {} /\ loadSeq = 0
  /\ lastSettings = NULL
  /\ exports = {} /\ exportSeq = 0 /\ exportResult = NULL
  /\ dspInput = NULL /\ dspOutput = NULL
  /\ player = Unmounted /\ appCurrentTime = 0 /\ waveform = NoWaveform

\* the App's mount effect (and any other caller) runs initialize()
Initialize ==
  /\ ctxCount < MaxContexts /\ audioContext = NoContext
  /\ Commit(initialize(This))
  /\ UNCHANGED <<loads, loadSeq>> /\ UNCHANGED lastSettings
  /\ UNCHANGED <<exportVars, dspVars, uiVars>>

\* loadAudioFile(file) up to its first suspension, await file.arrayBuffer().
\* What the file holds shows only when it is decoded, so the call in flight
\* is recorded by its order of issue alone.
LoadAudioFile ==
  /\ loadSeq < MaxLoads
  /\ audioContext = NoContext => ctxCount < MaxContexts
  /\ Commit(IF audioContext = NoContext THEN initialize(This) ELSE This)
  /\ loadSeq' = loadSeq + 1
  /\ loads' = loads \cup {[id |-> loadSeq + 1, pc |-> "arrayBuffer"]}
  /\ UNCHANGED lastSettings
  /\ UNCHANGED <<exportVars, dspVars, uiVars>>

\* loadAudioFile resumes with the bytes: throws without a context, else starts
\* decodeAudioData on the current context
LoadBytesRead(l) ==
  /\ l \in loads /\ l.pc = "arrayBuffer"
  /\ loads' = IF audioContext = NoContext
              THEN loads \ {l}
              ELSE (loads \ {l}) \cup {[l EXCEPT !.pc = "decode"]}
  /\ UNCHANGED <<fields, world, loadSeq, lastSettings, exportVars, dspVars, uiVars>>

\* decodeAudioData resolves with the audio the file holds: the decoded buffer
\* is stored
LoadDecoded(l, file) ==
  /\ l \in loads /\ l.pc = "decode"
  /\ loads' = loads \ {l}
  /\ Commit([This EXCEPT !.audioBuffer = <<file, l.id>>])
  /\ UNCHANGED <<loadSeq, lastSettings, exportVars, dspVars, uiVars>>

\* a failing decode that drops the buffer loaded before
LoadDecodeFailedDropsBuffer(l) ==
  /\ l \in loads /\ l.pc = "decode"
  /\ loads' = loads \ {l}
  /\ audioBuffer' = NULL
  /\ UNCHANGED <<audioContext, convolverNode, vocalBuffer,
                 sourceNode, gainNode, dryGainNode, wetGainNode, bassFilter, presenceFilter,
                 channelSplitter, channelMerger, channelGainNodes, channelStates,
                 maleChorusNodes, femaleChorusNodes, maleChorusMixGain, femaleChorusMixGain,
                 isPlaying, startTime, pauseTime>>
  /\ UNCHANGED <<world, loadSeq, lastSettings, exportVars, dspVars, uiVars>>

\* decodeAudioData rejects (the bytes are no supported audio): loadAudioFile
\* throws and stores nothing
LoadDecodeFailed(l) ==
  /\ l \in loads /\ l.pc = "decode"
  /\ loads' = loads \ {l}
  /\ UNCHANGED <<fields, world, loadSeq, lastSettings, exportVars, dspVars, uiVars>>

Play(settings) ==
  /\ (audioContext # NoContext /\ audioBuffer # NULL) => gen < MaxBuilds
  /\ Commit(play(This, settings))
  /\ UNCHANGED <<loads, loadSeq>>
  /\ lastSettings' = IF audioContext # NoContext /\ audioBuffer # NULL
                     THEN settings ELSE lastSettings
  /\ UNCHANGED <<exportVars, dspVars, uiVars>>

Pause ==
  /\ Commit(pause(This))
  /\ UNCHANGED <<loads, loadSeq>>
  /\ lastSettings' = IF isPlaying /\ audioContext # NoContext THEN NULL ELSE lastSettings
  /\ UNCHANGED <<exportVars, dspVars, uiVars>>

Stop ==
  /\ Commit(stop(This))
  /\ UNCHANGED <<loads, loadSeq>> /\ lastSettings' = NULL
  /\ UNCHANGED <<exportVars, dspVars, uiVars>>

UpdateEffects(settings) ==
  /\ Commit(updateEffects(This, settings))
  /\ UNCHANGED <<loads, loadSeq>>
  /\ lastSettings' = IF isPlaying THEN settings ELSE lastSettings
  /\ UNCHANGED <<exportVars, dspVars, uiVars>>

SetChannelState(channelIndex, enabled) ==
  /\ Commit(setChannelState(This, channelIndex, enabled))
  /\ UNCHANGED <<loads, loadSeq>> /\ UNCHANGED lastSettings
  /\ UNCHANGED <<exportVars, dspVars, uiVars>>

Dispose ==
  /\ Commit(dispose(This))
  /\ UNCHANGED <<loads, loadSeq>> /\ lastSettings' = NULL
  /\ UNCHANGED <<exportVars, dspVars, uiVars>>

\* the context's transport clock advances
Tick ==
  /\ audioContext # NoContext /\ now < MaxTime
  /\ now' = now + 1
  /\ UNCHANGED <<fields, edges, gain, playing, srcBuffer, closed, ctxCount, gen,
                 loads, loadSeq, lastSettings, exportVars, dspVars, uiVars>>

ChannelIndexes == -1..2

Next ==
  \/ Initialize
  \/ LoadAudioFile
  \/ \E l \in loads : LoadBytesRead(l)
  \/ \E l \in loads, file \in Files : LoadDecoded(l, file)
  \/ \E l \in loads : LoadDecodeFailed(l)
  \/ \E settings \in Settings : Play(settings)
  \/ Pause
  \/ Stop
  \/ \E settings \in Settings : UpdateEffects(settings)
  \/ \E channelIndex \in ChannelIndexes, enabled \in BOOLEAN : SetChannelState(channelIndex, enabled)
  \/ Dispose
  \/ Tick

Spec == Init /\ [][Next]_vars

\* exportProcessedAudio(settings) is called: it throws, or starts rendering
ExportProcessedAudio(settings) ==
  /\ exportSeq < MaxExports
  /\ exportSeq' = exportSeq + 1
  /\ LET r == exportProcessedAudio(This, settings, exportSeq + 1)
     IN IF r.error
        THEN exportResult' = ExportError /\ UNCHANGED exports
        ELSE exports' = exports \cup {r.render} /\ UNCHANGED exportResult
  /\ UNCHANGED <<fields, world, loads, loadSeq, lastSettings, dspVars, uiVars>>

\* a startRendering() continuation that encodes a rendering of whatever buffer
\* is loaded by then
ExportRenderedCurrentBuffer(x) ==
  /\ x \in exports
  /\ exports' = exports \ {x}
  /\ exportResult' = [blob |-> audioBufferToWav(
                         [x EXCEPT !.buffer = audioBuffer,
                                   !.srcBuffer = (OfflineNode("source", x.id) :> audioBuffer)])]
  /\ UNCHANGED <<fields, world, loads, loadSeq, lastSettings, exportSeq, dspVars, uiVars>>

\* startRendering() resolves: the rendered buffer is encoded and returned
ExportRendered(x) ==
  /\ x \in exports
  /\ exports' = exports \ {x}
  /\ exportResult' = [blob |-> audioBufferToWav(x)]
  /\ UNCHANGED <<fields, world, loads, loadSeq, lastSettings, exportSeq, dspVars, uiVars>>

\* A session in which the engine is also asked to export.
ExportNext ==
  \/ Initialize
  \/ loadSeq < ExportMaxLoads /\ LoadAudioFile
  \/ \E l \in loads : LoadBytesRead(l)
  \/ \E l \in loads, file \in Files : LoadDecoded(l, file)
  \/ \E l \in loads : LoadDecodeFailed(l)
  \/ gen < ExportMaxBuilds /\ \E settings \in Settings : Play(settings)
  \/ Pause
  \/ Stop
  \/ \E settings \in Settings : UpdateEffects(settings)
  \/ \E channelIndex \in ChannelIndexes, enabled \in BOOLEAN : SetChannelState(channelIndex, enabled)
  \/ Dispose
  \/ \E settings \in Settings : ExportProcessedAudio(settings)
  \/ \E x \in exports : ExportRendered(x)

ExportSpec == Init /\ [][ExportNext]_vars

\* A session in which files are loaded while exports render; nothing plays.
RenderNext ==
  \/ Initialize
  \/ LoadAudioFile
  \/ \E l \in loads : LoadBytesRead(l)
  \/ \E l \in loads, file \in Files : LoadDecoded(l, file)
  \/ \E l \in loads : LoadDecodeFailed(l)
  \/ Dispose
  \/ \E settings \in Settings : ExportProcessedAudio(settings)
  \/ \E x \in exports : ExportRendered(x)

RenderSpec == Init /\ [][RenderNext]_vars

\* ------------------------------------------------- sample-level functions
\* Samples are fixed-point numbers in hundredths: 100 is the sample value 1.0.
\* Products are truncated toward zero back to hundredths.
SampleScale == 100

\* sample values: beyond -1, between -1 and 0, 0, and 1
Samples == {-150, -25, 0, 100}

SampleRates == {44100}

\* the buffers of samples: data[channel][frame], both counted from 0.  An
\* AudioBuffer has at least one frame: createBuffer and the decoder give none
\* of length 0.
Buffers ==
  UNION {{[numberOfChannels |-> c, length |-> f, sampleRate |-> r, data |-> d] :
            d \in [0..(c - 1) -> [0..(f - 1) -> Samples]]} :
         c \in 1..2, f \in 1..MaxFrames, r \in SampleRates}

\* n / d truncated toward zero
Trunc(n, d) == IF n >= 0 THEN n \div d ELSE -((-n) \div d)

Sign(v) == IF v > 0 THEN 1 ELSE IF v < 0 THEN -1 ELSE 0

Abs(v) == IF v < 0 THEN -v ELSE v

\* Math.max(lo, Math.min(hi, v))
Clamp(v, lo, hi) == IF v < lo THEN lo ELSE IF v > hi THEN hi ELSE v

\* Math.sqrt of a non-negative sample value, in hundredths
Sqrt(v) == CHOOSE r \in 0..(2 * SampleScale) :
             r * r <= v * SampleScale /\ (r + 1) * (r + 1) > v * SampleScale

\* the array indexes one pass of applyVocalIsolation over a channel of the
\* given length reads: inputData[i] for every i, outputData[i - 1] for i > 0
VocalIsolationReads(length) ==
  {i : i \in 0..(length - 1)} \cup {i - 1 : i \in 1..(length - 1)}

\* outputData[i] of applyVocalIsolation, given the input and the output so far
VocalSample(inputData, outputData, i) ==
  LET highPassOutput == IF i > 0
                        THEN Trunc(95 * outputData[i - 1] + 5 * inputData[i], 100)
                        ELSE inputData[i]
      lowPassOutput == IF i > 0
                       THEN Trunc(90 * outputData[i - 1] + 10 * highPassOutput, 100)
                       ELSE highPassOutput
      enhancedValue == Trunc(lowPassOutput * 13, 10)
      compressedValue == Sign(enhancedValue) * Sqrt(Abs(enhancedValue))
  IN Clamp(compressedValue, -SampleScale, SampleScale)

\* the loop over i of applyVocalIsolation for one channel, from index i on
RECURSIVE VocalChannel(_, _, _, _)
VocalChannel(inputData, outputData, i, length) ==
  IF i >= length THEN outputData
  ELSE VocalChannel(inputData,
                    [j \in 0..i |-> IF j = i THEN VocalSample(inputData, outputData, i)
                                    ELSE outputData[j]],
                    i + 1, length)

\* an applyVocalIsolation() that returns a single channel whatever the input has
applyVocalIsolationMono(buffer) ==
  [numberOfChannels |-> 1, length |-> buffer.length, sampleRate |-> buffer.sampleRate,
   data |-> [channel \in 0..0 |->
               VocalChannel(buffer.data[channel], <<>>, 0, buffer.length)]]

\* applyVocalIsolation(buffer): a new buffer of the input's shape
applyVocalIsolation(buffer) ==
  [numberOfChannels |-> buffer.numberOfChannels, length |-> buffer.length,
   sampleRate |-> buffer.sampleRate,
   data |-> [channel \in 0..(buffer.numberOfChannels - 1) |->
               VocalChannel(buffer.data[channel], <<>>, 0, buffer.length)]]

\* the signal path of an offline graph is the identity: filters at 0 dB, dry
\* gain 1, wet gain 0, master gain 1, on the wiring source -> bass -> presence
\* -> dry -> gain -> destination
NeutralGraph(x) ==
  LET n(kind) == OfflineNode(kind, x.id) IN
  /\ x.gain[n("bassFilter")] = 0 /\ x.gain[n("presenceFilter")] = 0
  /\ x.gain[n("dryGain")] = Unity /\ x.gain[n("wetGain")] = 0
  /\ x.gain[n("gain")] = Unity
  /\ {<<n("source"), n("bassFilter")>>, <<n("bassFilter"), n("presenceFilter")>>,
      <<n("presenceFilter"), n("dryGain")>>, <<n("dryGain"), n("gain")>>,
      <<n("gain"), n("destination")>>} \subseteq x.edges
  /\ x.playing[n("source")] = 0

\* What startRendering() can return for an offline graph fed with a buffer: a
\* buffer of the offline context's channel count, length and rate.  Its
\* samples are the source's when the path is the identity and the wet bus is
\* silent; what the filters and the convolver make of them otherwise is the
\* platform's doing and left open.
RenderOutcomes(x, buffer) ==
  IF NeutralGraph(x) /\ x.numberOfChannels = buffer.numberOfChannels
  THEN {buffer}
  ELSE {b \in Buffers : /\ b.numberOfChannels = x.numberOfChannels
                        /\ b.length = buffer.length
                        /\ b.sampleRate = buffer.sampleRate}

PcmScale == 32767

HeaderBytes == 44

\* view.setInt16 of a number: truncated to an integer, wrapped to 16 bits
ToInt16(v) == ((v + 32768) % 65536) - 32768

\* a sample conversion without the clamp to [-1, 1]
PcmValueUnclamped(sample) == ToInt16(Trunc(sample * PcmScale, SampleScale))

\* the 16-bit value audioBufferToWav stores for a sample
PcmValue(sample) ==
  ToInt16(Trunc(Clamp(sample, -SampleScale, SampleScale) * PcmScale, SampleScale))

\* little-endian bytes of an unsigned 16-bit and 32-bit value (the low four
\* bytes of v: setUint32 keeps v modulo 2^32)
U16LE(v) == <<(v % 65536) % 256, (v % 65536) \div 256>>

U32LE(v) == <<v % 256, (v \div 256) % 256, (v \div 65536) % 256,
              (v \div 16777216) % 256>>

\* writeString: the character codes of "RIFF", "WAVE", "fmt " and "data"
ChunkId(name) ==
  CASE name = "RIFF" -> <<82, 73, 70, 70>>
    [] name = "WAVE" -> <<87, 65, 86, 69>>
    [] name = "fmt " -> <<102, 109, 116, 32>>
    [] name = "data" -> <<100, 97, 116, 97>>

\* the 44 header bytes audioBufferToWav writes
WavHeader(buffer) ==
  LET length == buffer.length * buffer.numberOfChannels * 2 IN
  ChunkId("RIFF") \o U32LE(36 + length) \o ChunkId("WAVE") \o ChunkId("fmt ")
    \o U32LE(16) \o U16LE(1) \o U16LE(buffer.numberOfChannels)
    \o U32LE(buffer.sampleRate)
    \o U32LE(buffer.sampleRate * buffer.numberOfChannels * 2)
    \o U16LE(buffer.numberOfChannels * 2) \o U16LE(16)
    \o ChunkId("data") \o U32LE(length)

\* an encoder that writes the samples channel after channel
wavBytesPlanar(buffer) ==
  LET count == buffer.length * buffer.numberOfChannels
      header == WavHeader(buffer)
  IN [k \in 1..(HeaderBytes + 2 * count) |->
        IF k <= HeaderBytes THEN header[k]
        ELSE LET index == (k - 1 - HeaderBytes) \div 2
                 i == index % buffer.length
                 channel == index \div buffer.length
             IN U16LE(PcmValue(buffer.data[channel][i]))[((k - 1 - HeaderBytes) % 2) + 1]]

\* the bytes of the ArrayBuffer audioBufferToWav fills: byte offset k is
\* element k + 1.  Sample index counts frames outermost, channels innermost.
wavBytes(buffer) ==
  LET count == buffer.length * buffer.numberOfChannels
      header == WavHeader(buffer)
  IN [k \in 1..(HeaderBytes + 2 * count) |->
        IF k <= HeaderBytes THEN header[k]
        ELSE LET index == (k - 1 - HeaderBytes) \div 2
                 i == index \div buffer.numberOfChannels
                 channel == index % buffer.numberOfChannels
             IN U16LE(PcmValue(buffer.data[channel][i]))[((k - 1 - HeaderBytes) % 2) + 1]]

\* an initialized engine and a buffer of samples; each behaviour applies one
\* function to the buffer, and encodes what a rendering returned
DspInit ==
  /\ audioContext = 1 /\ convolverNode = Node("convolver", 1, 0)
  /\ audioBuffer = NULL /\ vocalBuffer = NULL
  /\ NoGraph
  /\ isPlaying = FALSE /\ startTime = 0 /\ pauseTime = 0
  /\ edges = {} /\ gain = <<>> /\ playing = <<>> /\ srcBuffer = <<>>
  /\ closed = {} /\ ctxCount = 1 /\ gen = 0 /\ now = 0
  /\ loads = {} /\ loadSeq = 0
  /\ lastSettings = NULL
  /\ exports = {} /\ exportSeq = 0 /\ exportResult = NULL
  /\ dspInput \in Buffers /\ dspOutput = NULL
  /\ player = Unmounted /\ appCurrentTime = 0 /\ waveform = NoWaveform

\* applyVocalIsolation(buffer) runs on the buffer
ApplyVocalIsolation ==
  /\ audioContext # NoContext
  /\ dspOutput = NULL
  /\ dspOutput' = [op |-> "vocal", buffer |-> applyVocalIsolation(dspInput)]
  /\ UNCHANGED <<fields, world, loads, loadSeq, lastSettings, exportVars, dspInput, uiVars>>

\* the offline graph of exportProcessedAudio(settings) renders the buffer
RenderOffline(settings) ==
  /\ audioContext # NoContext
  /\ dspOutput = NULL
  /\ \E b \in RenderOutcomes(OfflineGraph(1, dspInput, dspInput.numberOfChannels, settings),
                              dspInput) :
        dspOutput' = [op |-> "render", settings |-> settings, buffer |-> b]
  /\ UNCHANGED <<fields, world, loads, loadSeq, lastSettings, exportVars, dspInput, uiVars>>

\* audioBufferToWav(renderedBuffer) encodes what was rendered
EncodeWav ==
  /\ dspOutput # NULL /\ dspOutput.op = "render"
  /\ dspOutput' = [op |-> "wav", settings |-> dspOutput.settings,
                   buffer |-> dspOutput.buffer, bytes |-> wavBytes(dspOutput.buffer)]
  /\ UNCHANGED <<fields, world, loads, loadSeq, lastSettings, exportVars, dspInput, uiVars>>

DspNext ==
  \/ ApplyVocalIsolation
  \/ \E settings \in Settings : RenderOffline(settings)
  \/ EncodeWav

DspSpec == DspInit /\ [][DspNext]_vars

\* ------------------------------------------------------ the AudioPlayer
\* A pending frame callback is the updateTime closure handed to
\* requestAnimationFrame: the isTimerActive and isPlaying of the render that
\* created it, and the loop it continues.  A callback that requests itself
\* again continues its loop; animationFrameRef names the loop whose request
\* was stored last, 0 once that request has run or was cancelled.
Closure(p, loop) ==
  [loop |-> loop, isTimerActive |-> p.isTimerActive, isPlaying |-> p.isPlaying]

FreeLoop(p) ==
  CHOOSE i \in 1..MaxLoops :
    /\ i \notin {f.loop : f \in p.frames}
    /\ \A j \in 1..(i - 1) : j \in {f.loop : f \in p.frames}

\* The effect on [isTimerActive, isPlaying, updateTime] after a render runs
\* and requests a frame.  updateTime is a new function when isTimerActive,
\* isPlaying or onTimeUpdate changed, and onTimeUpdate is a new function
\* whenever the App rendered.
EffectRequests(p, before, appRendered) ==
  /\ \/ p.isTimerActive # before.isTimerActive
     \/ p.isPlaying # before.isPlaying
     \/ appRendered
  /\ p.isTimerActive /\ p.isPlaying

StartLoopEffect(p, before, appRendered) ==
  IF EffectRequests(p, before, appRendered)
  THEN [p EXCEPT !.frames = @ \cup {Closure(p, FreeLoop(p))},
                 !.animationFrameRef = FreeLoop(p)]
  ELSE p

\* if (animationFrameRef.current) cancelAnimationFrame(animationFrameRef.current)
CancelFrame(p) ==
  [p EXCEPT !.frames = {f \in @ : f.loop # p.animationFrameRef},
            !.animationFrameRef = 0]

\* handleFileUpload after await loadAudioFile(file) resolved: the decoded
\* buffer is stored, then duration, currentTime and isPlaying are set and
\* onFileLoaded sets the App's buffer, duration and currentTime; the Waveform
\* is rendered with the new buffer and its effect resets its channelStates
FileLoaded(l, file) ==
  /\ l \in loads /\ l.pc = "decode"
  /\ loads' = loads \ {l}
  /\ Commit([This EXCEPT !.audioBuffer = <<file, l.id>>])
  /\ LET p == [player EXCEPT !.duration = BufferDuration(<<file, l.id>>),
                             !.currentTime = 0,
                             !.isPlaying = FALSE]
     IN player' = StartLoopEffect(p, player, TRUE)
  /\ appCurrentTime' = 0
  /\ waveform' = ShowBuffer(<<file, l.id>>)
  /\ UNCHANGED <<loadSeq, lastSettings, exportVars, dspVars>>

\* handlePlay: the play button shows while not playing, enabled with a duration
HandlePlay(settings) ==
  /\ player.duration > 0 /\ ~player.isPlaying
  /\ (audioContext # NoContext /\ audioBuffer # NULL) => gen < MaxBuilds
  /\ LET p == [player EXCEPT !.isPlaying = TRUE, !.isTimerActive = TRUE]
     IN /\ EffectRequests(p, player, FALSE) => Cardinality(p.frames) < MaxLoops
        /\ player' = StartLoopEffect(p, player, FALSE)
  /\ Commit(play(This, settings))
  /\ lastSettings' = IF audioContext # NoContext /\ audioBuffer # NULL
                     THEN settings ELSE lastSettings
  /\ UNCHANGED <<loads, loadSeq, appCurrentTime, waveform, exportVars, dspVars>>

\* handlePause: the pause button shows while playing
HandlePause ==
  /\ player.duration > 0 /\ player.isPlaying
  /\ Commit(pause(This))
  /\ lastSettings' = IF isPlaying /\ audioContext # NoContext THEN NULL ELSE lastSettings
  /\ LET p == CancelFrame([player EXCEPT !.isPlaying = FALSE, !.isTimerActive = FALSE])
     IN player' = StartLoopEffect(p, player, FALSE)
  /\ UNCHANGED <<loads, loadSeq, appCurrentTime, waveform, exportVars, dspVars>>

\* handleStop: the stop button is enabled with a duration
HandleStop ==
  /\ player.duration > 0
  /\ Commit(stop(This))
  /\ lastSettings' = NULL
  /\ LET p == CancelFrame([player EXCEPT !.isPlaying = FALSE, !.isTimerActive = FALSE,
                                        !.currentTime = 0])
     IN player' = StartLoopEffect(p, player, FALSE)
  /\ UNCHANGED <<loads, loadSeq, appCurrentTime, waveform, exportVars, dspVars>>

\* updateTime, the pending frame callback f, runs
UpdateTime(f) ==
  /\ f \in player.frames
  /\ LET fired == [player EXCEPT !.frames = @ \ {f},
                                 !.animationFrameRef = IF @ = f.loop THEN 0 ELSE @]
         again(p) == [p EXCEPT !.frames = @ \cup {f}, !.animationFrameRef = f.loop]
         time == getCurrentTime(This)
         dur == getDuration(This)
     IN IF ~f.isTimerActive
        THEN /\ player' = fired
             /\ UNCHANGED <<fields, world, lastSettings, appCurrentTime>>
        ELSE IF dur <= 0
        THEN /\ player' = again(fired)
             /\ UNCHANGED <<fields, world, lastSettings, appCurrentTime>>
        ELSE IF time >= dur /\ f.isPlaying
        THEN /\ LET p == [fired EXCEPT !.isPlaying = FALSE, !.isTimerActive = FALSE,
                                       !.currentTime = 0]
                IN player' = StartLoopEffect(p, player, appCurrentTime # time)
             /\ appCurrentTime' = time
             /\ Commit(stop(This))
             /\ lastSettings' = NULL
        ELSE /\ LET p == again([fired EXCEPT !.currentTime = time])
                IN /\ EffectRequests(p, player, appCurrentTime # time)
                        => Cardinality(p.frames) < MaxLoops
                   /\ player' = StartLoopEffect(p, player, appCurrentTime # time)
             /\ appCurrentTime' = time
             /\ UNCHANGED <<fields, world, lastSettings>>
  /\ UNCHANGED <<loads, loadSeq, waveform, exportVars, dspVars>>

\* A click on the checkbox of channel channelIndex of the Waveform, drawn for
\* buffers of more than one channel: handleChannelToggle flips the
\* component's flag and the App's handleChannelToggle passes the flipped
\* value of the rendered flag to the engine's setChannelState
HandleChannelToggle(channelIndex) ==
  /\ waveform.audioBuffer # NULL
  /\ NumChannels(waveform.audioBuffer) > 1
  /\ channelIndex \in 0..(NumChannels(waveform.audioBuffer) - 1)
  /\ waveform' = [waveform EXCEPT !.channelStates[channelIndex + 1] = ~@]
  /\ Commit(setChannelState(This, channelIndex, ~waveform.channelStates[channelIndex + 1]))
  /\ UNCHANGED <<loads, loadSeq, lastSettings, player, appCurrentTime, exportVars, dspVars>>

\* The mounted application: the App's mount effect initializes the engine, the
\* user uploads files and presses play, pause and stop, the browser runs the
\* frame callbacks, the context clock advances.
PlayerNext ==
  \/ Initialize
  \/ LoadAudioFile
  \/ \E l \in loads : LoadBytesRead(l)
  \/ \E l \in loads, file \in Files : FileLoaded(l, file)
  \/ \E l \in loads : LoadDecodeFailed(l)
  \/ \E settings \in Settings : HandlePlay(settings)
  \/ HandlePause
  \/ HandleStop
  \/ \E f \in player.frames : UpdateTime(f)
  \/ Tick

\* the browser keeps running requested frame callbacks and the clock of a
\* running context keeps advancing
PlayerSpec ==
  /\ Init /\ [][PlayerNext]_vars
  /\ WF_vars(\E f \in player.frames : UpdateTime(f))
  /\ WF_vars(Tick)

\* the mounted application with the Waveform's checkboxes
WaveformNext ==
  \/ PlayerNext
  \/ \E channelIndex \in 0..1 : HandleChannelToggle(channelIndex)

WaveformSpec == Init /\ [][WaveformNext]_vars

\* ============================================================== properties
\* a graph is built and its transport is running
Live == audioContext # NoContext /\ isPlaying /\ sourceNode # NULL

CurrentTime == getCurrentTime(This)

\* a loaded engine whose transport is not running
Halted == audioContext # NoContext /\ audioBuffer # NULL /\ ~isPlaying

\* the nodes from which a signal can flow into a context's destination
RECURSIVE Upstream(_, _)
Upstream(S, k) ==
  IF k = 0 THEN S
  ELSE Upstream(S \cup {e[1] : e \in {d \in edges : d[2] \in S}}, k - 1)

ConnectedToOutput ==
  Upstream({Destination(ctx) : ctx \in 1..ctxCount}, Cardinality(edges))
    \ {Destination(ctx) : ctx \in 1..ctxCount}

\* the nodes a graph is made of; the convolver belongs to the session
IsGraphNode(n) == n[1] # "convolver"

RECURSIVE SumOver(_, _)
SumOver(S, G) ==
  IF S = {} THEN 0
  ELSE LET n == CHOOSE m \in S : TRUE IN G[n] + SumOver(S \ {n}, G)

\* the gains through which the convolver's output reaches the destination:
\* convolver -> wet gain -> master gain -> destination
WetPaths ==
  {w \in {e[2] : e \in {d \in edges : d[1] = convolverNode}} :
     \E m \in {e[2] : e \in {d \in edges : d[1] = w}} :
        <<m, Destination(audioContext)>> \in edges}

WetContribution == SumOver(WetPaths, gain)

MainSourcesPlaying == {n \in DOMAIN playing : n[1] = "source"}

VoicesPlaying(part) == {n \in DOMAIN playing : n[1] = part \o "Source"}

\* C1: after every teardown no node of a previous graph stays connected towards
\* the audio output; only the nodes of the graph now built may be.
C1_TeardownDisconnectsAll ==
  \A n \in ConnectedToOutput :
     IsGraphNode(n) => (sourceNode # NULL /\ n[2] = gen)

\* C2: in every Live state whose last applied settings have reverbAmount = 0,
\* the gains on the paths from the convolver to the output sum to 0.
C2_ZeroReverbIsDry ==
  (Live /\ lastSettings # NULL /\ lastSettings.reverbAmount = 0) => WetContribution = 0

\* C3: at most one main source and at most 6 voice sources per chorus part are
\* started and not stopped, in every reachable state.
C3_AtMostOneLiveGraph ==
  /\ Cardinality(MainSourcesPlaying) <= 1
  /\ Cardinality(VoicesPlaying("male")) <= NumVoices
  /\ Cardinality(VoicesPlaying("female")) <= NumVoices

\* a rebuilt graph is playing with all six voices of both parts
C3_Witness ==
  /\ gen = 2 /\ Live
  /\ Cardinality(MainSourcesPlaying) = 1
  /\ Cardinality(VoicesPlaying("male")) = NumVoices
  /\ Cardinality(VoicesPlaying("female")) = NumVoices

\* C4: pause() while Live at position p = now - startTime leaves getCurrentTime()
\* at p; while the engine stays paused no step but stop() changes it, however
\* the clock advances; the next play() starts the main source at p and
\* getCurrentTime() is p right after it.
C4_PauseResumeKeepsPosition ==
  /\ [](Live => LET t == pause(This)
                IN ~getIsPlaying(t) /\ getCurrentTime(t) = now - startTime)
  /\ [][(Halted /\ Halted' /\ CurrentTime' # CurrentTime) => Stop]_vars
  /\ []((Halted /\ pauseTime >= 0) =>
          \A settings \in Settings :
             LET t == play(This, settings)
             IN /\ getIsPlaying(t)
                /\ t.sourceNode \in DOMAIN t.playing
                /\ t.playing[t.sourceNode] = CurrentTime
                /\ getCurrentTime(t) = CurrentTime)

\* playback was paused at a position p > 0, the clock ran on, and play() resumed at p
C4_Witness ==
  /\ Live /\ gen = 2
  /\ playing[sourceNode] = 1 /\ CurrentTime = 1 /\ now = 2 /\ startTime = 1

\* C5: stop() in any state leaves the engine not playing, at time 0, with no
\* source running; the offset stays 0 until the engine plays again, and that
\* play() starts the main source and every chorus voice at 0.
C5_StopResets ==
  /\ [](LET t == stop(This)
        IN /\ ~getIsPlaying(t) /\ getCurrentTime(t) = 0 /\ t.pauseTime = 0
           /\ DOMAIN t.playing = {})
  /\ [][(~isPlaying /\ pauseTime = 0 /\ ~isPlaying') => pauseTime' = 0]_vars
  /\ []((Halted /\ pauseTime = 0) =>
          \A settings \in Settings :
             LET t == play(This, settings)
             IN /\ getIsPlaying(t)
                /\ {t.sourceNode} \cup VoiceSources(t.maleChorusNodes)
                      \cup VoiceSources(t.femaleChorusNodes) = DOMAIN t.playing
                /\ \A n \in DOMAIN t.playing : t.playing[n] = 0)

\* a second graph, with chorus voices, started at offset 0 after time had passed
C5_Witness ==
  /\ Live /\ gen = 2 /\ maleChorusNodes # <<>>
  /\ now = 2 /\ startTime = 2
  /\ \A n \in DOMAIN playing : playing[n] = 0

C7_MutePersistsAcrossRebuild ==
  loadSeq <= 1 =>
    \A t \in {pause(This)} \cup {play(This, settings) : settings \in Settings} :
       \A i \in DOMAIN channelStates :
          ~channelStates[i] =>
             /\ i \in DOMAIN getChannelStates(t) /\ ~getChannelStates(t)[i]
             /\ i \in DOMAIN t.channelGainNodes => t.gain[t.channelGainNodes[i]] = 0

\* C8: right after a successful load of a buffer with n channels,
\* getChannelStates() is n entries, all true.
C8_LoadResetsChannelStates ==
  [][audioBuffer' # audioBuffer =>
        getChannelStates(This)' = [i \in 1..NumChannels(audioBuffer') |-> TRUE]]_vars

\* C9: updateEffects(settings) changes neither getChannelStates() nor any live
\* per-channel gain, in any state.
C9_UpdateEffectsKeepsChannelState ==
  \A settings \in Settings :
     LET t == updateEffects(This, settings)
     IN /\ getChannelStates(t) = getChannelStates(This)
        /\ t.channelGainNodes = channelGainNodes
        /\ \A i \in DOMAIN channelGainNodes :
              t.gain[channelGainNodes[i]] = gain[channelGainNodes[i]]

\* a live graph built with reverb 0 and chorus voices whose wet gain was then
\* patched by updateEffects, with channel 0 muted throughout
C9_Witness ==
  /\ Live /\ maleChorusNodes # <<>>
  /\ gain[wetGainNode] = 50
  /\ Len(channelStates) = 2 /\ ~channelStates[1]
  /\ gain[channelGainNodes[1]] = 0

\* C10: whenever a buffer with n channels is loaded, getChannelStates() has
\* length n, and setChannelState(i, enabled) with 0 <= i < n is accepted.
C10_ChannelStatesMatchBuffer ==
  audioBuffer # NULL =>
    /\ Len(getChannelStates(This)) = NumChannels(audioBuffer)
    /\ \A i \in 0..(NumChannels(audioBuffer) - 1), enabled \in BOOLEAN :
          LET t == setChannelState(This, i, enabled)
          IN i + 1 \in DOMAIN getChannelStates(t) /\ getChannelStates(t)[i + 1] = enabled

\* the channel count of the loaded buffer, 0 when none is loaded
ChannelCount == IF audioBuffer = NULL THEN 0 ELSE NumChannels(audioBuffer)

\* C11: in every state, setChannelState(index, enabled) with index < 0 or
\* index >= the loaded buffer's channel count changes nothing: not
\* getChannelStates(), no channel gain, no other engine state.
C11_OutOfRangeIsNoOp ==
  \A channelIndex \in ChannelIndexes, enabled \in BOOLEAN :
     (channelIndex < 0 \/ channelIndex >= ChannelCount) =>
        setChannelState(This, channelIndex, enabled) = This

\* the engine holds no decoded buffer
Empty == audioBuffer = NULL

\* C12: on an engine with no loaded buffer, play, pause, stop, updateEffects
\* and setChannelState build no node, change no wiring and no parameter, and
\* leave getIsPlaying() false and getCurrentTime() and getDuration() at 0.
C12_EmptyOperationsAreNoOps ==
  Empty =>
    \A t \in {play(This, settings) : settings \in Settings}
             \cup {pause(This), stop(This)}
             \cup {updateEffects(This, settings) : settings \in Settings}
             \cup {setChannelState(This, channelIndex, enabled) :
                      channelIndex \in ChannelIndexes, enabled \in BOOLEAN} :
       /\ t.gen = gen /\ t.edges = edges /\ t.gain = gain
       /\ t.srcBuffer = srcBuffer /\ t.playing = playing
       /\ t.sourceNode = NULL /\ t.gainNode = NULL
       /\ ~getIsPlaying(t) /\ getCurrentTime(t) = 0 /\ getDuration(t) = 0

\* an engine that was initialized, disposed and initialized again, whose clock
\* has advanced and whose only load is still decoding: it holds no buffer
C12_Witness ==
  /\ Empty /\ audioContext # NoContext /\ closed # {} /\ now = MaxTime
  /\ \E l \in loads : l.pc = "decode"

\* C13: exportProcessedAudio on an engine with no loaded buffer fails with the
\* export error, starts no render and so yields no bytes, and the call changes
\* neither the engine's fields nor the audio graph.
C13_ExportWithoutBufferFails ==
  /\ [](Empty => \A settings \in Settings :
                    LET r == exportProcessedAudio(This, settings, exportSeq + 1)
                    IN r.error /\ r.render = NULL)
  /\ [][(Empty /\ exportSeq' # exportSeq) =>
           /\ exportResult' = ExportError /\ exports' = exports
           /\ UNCHANGED <<fields, world>>]_vars
  /\ [](Empty => exports = {} /\ exportResult \in {NULL, ExportError})

\* an initialized engine without a buffer was asked to export and refused
C13_Witness ==
  /\ Empty /\ audioContext # NoContext /\ closed = {}
  /\ exportSeq = 1 /\ exportResult = ExportError

\* the node references that make up the engine's graph
graphFields == <<sourceNode, gainNode, dryGainNode, wetGainNode, bassFilter, presenceFilter,
                 channelSplitter, channelMerger, channelGainNodes,
                 maleChorusNodes, femaleChorusNodes, maleChorusMixGain, femaleChorusMixGain>>

\* C14: no step of a loadAudioFile call that ends in a failed decode (the call
\* itself, the arrival of the file's bytes, the rejected decode) changes the
\* loaded buffer, getDuration(), the play state, the clock offsets, the
\* channel states or the graph (its nodes, wiring, parameters and sources).
C14_FailedLoadKeepsState ==
  [][(loads' # loads /\ (\/ LoadAudioFile
                         \/ \E l \in loads : LoadBytesRead(l)
                         \/ \E l \in loads : LoadDecodeFailed(l))) =>
        /\ audioBuffer' = audioBuffer /\ getDuration(This)' = getDuration(This)
        /\ UNCHANGED <<isPlaying, startTime, pauseTime, channelStates>>
        /\ UNCHANGED <<graphFields, vocalBuffer, edges, gain, playing, srcBuffer>>]_vars

\* the only load issued, on an engine whose context was never closed, has
\* ended at its decode without storing a buffer
C14_Witness ==
  /\ loadSeq = 1 /\ loads = {} /\ closed = {}
  /\ audioContext # NoContext /\ audioBuffer = NULL /\ getDuration(This) = 0

\* the engine after each operation that tears the graph down in this state:
\* stop(), dispose(), and pause() where it is not refused
Teardowns ==
  {stop(This), dispose(This)}
    \cup (IF isPlaying /\ audioContext # NoContext THEN {pause(This)} ELSE {})

\* C15 as stated: after any of pause/stop/dispose, a second pause, stop or
\* dispose leaves the engine exactly as the first left it.
C15_SecondTeardownChangesNothing ==
  \A t1 \in Teardowns : \A t2 \in {pause(t1), stop(t1), dispose(t1)} : t2 = t1

\* C15 amended: after any of pause/stop/dispose a second teardown finds nothing
\* to stop or disconnect (cleanup changes nothing); a second pause() changes
\* nothing at all, a second stop() only zeroes the clock offsets and the
\* playing flag, a second dispose() only releases the context; and stop() and
\* dispose() repeated leave the engine exactly as after the first.
C15_TeardownIsIdempotent ==
  /\ \A t1 \in Teardowns :
        /\ cleanup(t1) = t1
        /\ pause(t1) = t1
        /\ stop(t1) = [t1 EXCEPT !.pauseTime = 0, !.startTime = 0, !.isPlaying = FALSE]
        /\ dispose(t1) =
              IF t1.audioContext = NoContext THEN t1
              ELSE [t1 EXCEPT !.closed = t1.closed \cup {t1.audioContext},
                              !.audioContext = NoContext,
                              !.edges = {}, !.gain = <<>>, !.srcBuffer = <<>>]
  /\ stop(stop(This)) = stop(This)
  /\ dispose(dispose(This)) = dispose(This)

\* a live stereo graph with chorus voices, one tick into the track: each
\* teardown has sources to stop and nodes to disconnect
C15_Witness ==
  /\ Live /\ maleChorusNodes # <<>> /\ Len(channelGainNodes) = 2
  /\ CurrentTime = 1 /\ Cardinality(DOMAIN playing) = 1 + 2 * NumVoices

\* C16: in every state that is not Live, updateEffects(settings) changes no
\* node parameter, no wiring and no engine field.
C16_UpdateEffectsOnlyWhenLive ==
  ~Live => \A settings \in Settings : updateEffects(This, settings) = This

\* C17: updateEffects(s) on a Live engine leaves the live graph's dry gain at
\* 1 - s.reverbAmount, its wet gain at s.reverbAmount, its bass filter gain at
\* s.bassBoost and its presence filter gain at s.presence, and changes no node
\* reference, no connection, no source, and neither the clock nor the play state.
C17_UpdateEffectsPatchesInPlace ==
  Live =>
    \A settings \in Settings :
       LET t == updateEffects(This, settings)
       IN /\ {dryGainNode, wetGainNode, bassFilter, presenceFilter}
               \subseteq {Node(kind, gen, 0) :
                             kind \in {"dryGain", "wetGain", "bassFilter", "presenceFilter"}}
          /\ t.gain[dryGainNode] = Unity - settings.reverbAmount
          /\ t.gain[wetGainNode] = settings.reverbAmount
          /\ t.gain[bassFilter] = settings.bassBoost
          /\ t.gain[presenceFilter] = settings.presence
          /\ [t EXCEPT !.gain = gain] = This
          /\ DOMAIN t.gain = DOMAIN gain

\* a graph built with no reverb and flat tone was patched while Live to
\* reverb 0.5, bass +3 dB and presence +2 dB
C17_Witness ==
  /\ Live /\ femaleChorusNodes # <<>>
  /\ gain[dryGainNode] = 50 /\ gain[wetGainNode] = 50
  /\ gain[bassFilter] = 3 /\ gain[presenceFilter] = 2

\* the gain at which a chorus part's mix bus feeds the master gain of the live
\* graph: 0 when the part has no bus connected to it
MixBusGain(t, mix) ==
  IF mix # NULL /\ <<mix, t.gainNode>> \in t.edges THEN t.gain[mix] ELSE 0

\* C18: after updateEffects(s) on a Live engine the male chorus mix bus feeds the
\* main output at s.maleChorus x 0.4 and the female one at s.femaleChorus x 0.4,
\* whatever settings the graph was built with.
C18_UpdateEffectsSetsChorusMix ==
  Live =>
    \A settings \in Settings :
       LET t == updateEffects(This, settings)
       IN /\ MixBusGain(t, t.maleChorusMixGain) = ChorusMixGain(settings.maleChorus)
          /\ MixBusGain(t, t.femaleChorusMixGain) = ChorusMixGain(settings.femaleChorus)

\* settings with a single chorus part active, at amounts other than those of
\* Settings
ChorusSettings ==
  { [reverbAmount |-> 0, bassBoost |-> 0, presence |-> 0, maleChorus |-> 100, femaleChorus |-> 0],
    [reverbAmount |-> 0, bassBoost |-> 0, presence |-> 0, maleChorus |-> 0, femaleChorus |-> 50] }

\* the voices of one chorus part are well built for the given amount: six of
\* them, each gained at 0.25 into a mix bus gained at amount x 0.4, when the
\* amount is positive; no voice and no bus when it is 0
PartBuilt(t, voices, mix, amount) ==
  IF amount > 0
  THEN /\ Len(voices) = NumVoices
       /\ Cardinality(VoiceSources(voices)) = NumVoices
       /\ mix # NULL /\ t.gain[mix] = ChorusMixGain(amount)
       /\ \A v \in Range(voices) :
             /\ t.gain[v.gain] = VoiceGain
             /\ {<<v.source, v.delay>>, <<v.delay, v.gain>>, <<v.gain, mix>>} \subseteq t.edges
  ELSE voices = <<>> /\ mix = NULL

\* C19: every play(settings) on a loaded engine builds, for each chorus part,
\* exactly 6 voices at gain 0.25 into a mix bus at amount x 0.4 when the part's
\* amount is positive and nothing when it is 0; and updateEffects never changes
\* the voices of either part.
C19_SixVoicesPerActivePart ==
  /\ (audioContext # NoContext /\ audioBuffer # NULL) =>
        \A settings \in Settings \cup ChorusSettings :
           LET t == play(This, settings)
           IN /\ PartBuilt(t, t.maleChorusNodes, t.maleChorusMixGain, settings.maleChorus)
              /\ PartBuilt(t, t.femaleChorusNodes, t.femaleChorusMixGain, settings.femaleChorus)
  /\ \A settings \in Settings \cup ChorusSettings :
        LET t == updateEffects(This, settings)
        IN /\ t.maleChorusNodes = maleChorusNodes
           /\ t.femaleChorusNodes = femaleChorusNodes

\* a second graph was built with both chorus parts and its mix buses were then
\* patched to 0 while Live: all six voices of each part are still there
C19_Witness ==
  /\ Live /\ gen = 2
  /\ Len(maleChorusNodes) = NumVoices /\ Len(femaleChorusNodes) = NumVoices
  /\ gain[maleChorusMixGain] = 0 /\ gain[femaleChorusMixGain] = 0

\* the chorus voice sources the engine references
AllVoiceSources(t) == VoiceSources(t.maleChorusNodes) \cup VoiceSources(t.femaleChorusNodes)

\* C20: every play(settings) that starts the main source starts every male and
\* female voice source too, at the main source's offset, which is the paused
\* offset; and in every reachable state each running voice of the graph runs
\* from the offset its main source runs from.
C20_VoicesStartWithMain ==
  /\ (audioContext # NoContext /\ audioBuffer # NULL) =>
        \A settings \in Settings :
           LET t == play(This, settings)
           IN IF t.sourceNode \in DOMAIN t.playing
              THEN /\ t.playing[t.sourceNode] = pauseTime
                   /\ \A n \in AllVoiceSources(t) :
                         n \in DOMAIN t.playing /\ t.playing[n] = t.playing[t.sourceNode]
              ELSE AllVoiceSources(t) \cap DOMAIN t.playing = {}
  /\ \A n \in AllVoiceSources(This) \cap DOMAIN playing :
        sourceNode \in DOMAIN playing /\ playing[n] = playing[sourceNode]

\* playback with both chorus parts was paused one tick in and resumed: the main
\* source and all twelve voices run from offset 1
C20_Witness ==
  /\ Live /\ gen = 2 /\ pauseTime = 1
  /\ Cardinality(AllVoiceSources(This)) = 2 * NumVoices
  /\ \A n \in AllVoiceSources(This) \cup {sourceNode} :
        n \in DOMAIN playing /\ playing[n] = 1

\* the nodes that belong to one graph, as opposed to the session (convolver)
\* or the context (destination)
IsBuiltNode(n) == n[1] \notin {"convolver", "destination"}

\* the connections of the graph the engine has just built (generation t.gen)
BuiltEdges(t) ==
  {e \in t.edges : \/ IsBuiltNode(e[1]) /\ e[1][2] = t.gen
                   \/ IsBuiltNode(e[2]) /\ e[2][2] = t.gen}

\* a graph's topology: which kind of node, at which index among its kind,
\* feeds which
LiveShape(t) == {<<<<e[1][1], e[1][3]>>, <<e[2][1], e[2][3]>>>> : e \in BuiltEdges(t)}

OfflineShape(x) == {<<<<e[1][1], 0>>, <<e[2][1], 0>>>> : e \in x.edges}

\* C21: for every loaded buffer and settings, the graph exportProcessedAudio
\* renders has the topology of the graph play() builds for them: tone shaping,
\* dry/wet reverb, the chorus voices of each active part, the channel matrix.
C21_ExportRendersPlayTopology ==
  (audioContext # NoContext /\ audioBuffer # NULL) =>
     \A settings \in Settings :
        OfflineShape(exportProcessedAudio(This, settings, exportSeq + 1).render)
          = LiveShape(play(This, settings))

\* the nodes and the impulse an offline render uses
RenderNodes(x) == UNION {{e[1], e[2]} : e \in x.edges} \cup {x.impulse}

\* every node the live session has: wired, parameterised, referenced
LiveNodes ==
  UNION {{e[1], e[2]} : e \in edges} \cup DOMAIN gain \cup DOMAIN srcBuffer
    \cup DOMAIN playing \cup ({convolverNode} \ {NULL})

OfflineKinds ==
  {"source", "bassFilter", "presenceFilter", "dryGain", "wetGain", "gain",
   "convolver", "destination", "impulse"}

\* what a step of the engine can make of the engine and its audio graph, as
\* determined by the engine's own state and the loads in flight
EngineOutcomes ==
  {initialize(This), pause(This), stop(This), dispose(This)}
    \cup {play(This, settings) : settings \in Settings}
    \cup {updateEffects(This, settings) : settings \in Settings}
    \cup {setChannelState(This, channelIndex, enabled) :
            channelIndex \in ChannelIndexes, enabled \in BOOLEAN}
    \cup {[This EXCEPT !.audioBuffer = <<file, l.id>>] : file \in Files, l \in loads}

\* C22: an export uses only nodes and an impulse of its own offline context,
\* none of them a node of the live session or of another export; no step of an
\* export changes the engine or the live graph; and every step of the engine
\* is determined by the engine's own state, whatever exports are in flight.
C22_ExportIsIsolated ==
  /\ [](\A x \in exports :
          /\ RenderNodes(x) = {OfflineNode(kind, x.id) : kind \in OfflineKinds}
          /\ RenderNodes(x) \cap LiveNodes = {}
          /\ \A y \in exports \ {x} : RenderNodes(x) \cap RenderNodes(y) = {})
  /\ [](\A settings \in Settings :
          LET r == exportProcessedAudio(This, settings, exportSeq + 1)
          IN ~r.error => RenderNodes(r.render) \cap LiveNodes = {})
  /\ [][exportVars' # exportVars =>
           UNCHANGED <<fields, world, loads, loadSeq, lastSettings>>]_vars
  /\ [][This' = This \/ This' \in EngineOutcomes]_vars

\* while a graph with a muted channel plays, one export has been rendered and
\* encoded and another is still rendering
C22_Witness ==
  /\ Live /\ channelStates = <<FALSE, TRUE>>
  /\ exportSeq = 2 /\ exports # {}
  /\ exportResult # NULL /\ exportResult # ExportError

\* ---------------------------------------------------------------- C23
\* reading a WAVE file back: unsigned 16- and 32-bit and signed 16-bit
\* little-endian values at a byte offset
U16At(bytes, k) == bytes[k + 1] + 256 * bytes[k + 2]

U32At(bytes, k) ==
  bytes[k + 1] + 256 * bytes[k + 2] + 65536 * bytes[k + 3] + 16777216 * bytes[k + 4]

S16At(bytes, k) == IF U16At(bytes, k) >= 32768 THEN U16At(bytes, k) - 65536
                   ELSE U16At(bytes, k)

NeutralSettings(settings) ==
  /\ settings.reverbAmount = 0 /\ settings.bassBoost = 0 /\ settings.presence = 0
  /\ settings.maleChorus = 0 /\ settings.femaleChorus = 0

\* a stored 16-bit value is less than one quantization step from sample x 32767
WithinQuantization(stored, sample) ==
  Abs(stored * SampleScale - sample * PcmScale) < SampleScale

\* a neutral export is encoded
NeutralExportEncoded ==
  dspOutput # NULL /\ dspOutput.op = "wav" /\ NeutralSettings(dspOutput.settings)

\* the file's channel count, sample rate and frame count are the source's
HeaderMatchesSource(bytes) ==
  /\ U16At(bytes, 22) = dspInput.numberOfChannels
  /\ U32At(bytes, 24) = dspInput.sampleRate
  /\ U32At(bytes, 40) = dspInput.length * U16At(bytes, 32)
  /\ Len(bytes) = HeaderBytes + U32At(bytes, 40)

\* C23 as stated: a neutral export has the source's channel count, sample rate
\* and frame count, and every decoded sample equals the source sample up to
\* 16-bit quantization.
C23_NeutralExportRoundTrips ==
  NeutralExportEncoded =>
    LET bytes == dspOutput.bytes IN
    /\ HeaderMatchesSource(bytes)
    /\ \A i \in 0..(dspInput.length - 1), c \in 0..(dspInput.numberOfChannels - 1) :
         WithinQuantization(S16At(bytes, HeaderBytes + 2 * (i * dspInput.numberOfChannels + c)),
                            dspInput.data[c][i])

\* C23 amended: a neutral export has the source's channel count, sample rate
\* and frame count, and every decoded sample equals, up to 16-bit
\* quantization, the source sample clamped to [-1, 1]: source samples within
\* [-1, 1] round-trip, samples beyond are stored as -32767 or 32767.
C23_NeutralExportRoundTripsClamped ==
  NeutralExportEncoded =>
    LET bytes == dspOutput.bytes IN
    /\ HeaderMatchesSource(bytes)
    /\ \A i \in 0..(dspInput.length - 1), c \in 0..(dspInput.numberOfChannels - 1) :
         LET stored == S16At(bytes, HeaderBytes + 2 * (i * dspInput.numberOfChannels + c))
             sample == dspInput.data[c][i]
         IN /\ WithinQuantization(stored, Clamp(sample, -SampleScale, SampleScale))
            /\ sample < -SampleScale => stored = -PcmScale
            /\ sample > SampleScale => stored = PcmScale

\* a neutral export of a stereo source of two frames with a sample between -1
\* and 0 and a sample of 1 is encoded
C23_Witness ==
  /\ NeutralExportEncoded
  /\ dspInput.numberOfChannels = 2 /\ dspInput.length = MaxFrames
  /\ dspInput.data[0][0] = -25 /\ dspInput.data[1][1] = 100
  /\ S16At(dspOutput.bytes, HeaderBytes) = -8191

\* ---------------------------------------------------------------- C24
\* audioBufferToWav has encoded a rendered buffer
Encoded == dspOutput # NULL /\ dspOutput.op = "wav"

\* C24: for a rendered buffer of F frames, C channels and rate R the encoder
\* output is 44 + 2*F*C bytes: the header fields RIFF size 36 + 2*F*C, fmt
\* size 16, format 1, channels C, rate R, byte rate 2*R*C, block align 2*C,
\* bits 16, data size 2*F*C, then the sample of frame i and channel c as the
\* little-endian 16-bit value at byte offset 44 + 2*(i*C + c).
C24_WavLayout ==
  Encoded =>
    LET bytes == dspOutput.bytes
        F == dspOutput.buffer.length
        C == dspOutput.buffer.numberOfChannels
        R == dspOutput.buffer.sampleRate
    IN /\ Len(bytes) = 44 + 2 * F * C
       /\ <<bytes[1], bytes[2], bytes[3], bytes[4]>> = <<82, 73, 70, 70>>
       /\ U32At(bytes, 4) = 36 + 2 * F * C
       /\ <<bytes[9], bytes[10], bytes[11], bytes[12]>> = <<87, 65, 86, 69>>
       /\ <<bytes[13], bytes[14], bytes[15], bytes[16]>> = <<102, 109, 116, 32>>
       /\ U32At(bytes, 16) = 16
       /\ U16At(bytes, 20) = 1
       /\ U16At(bytes, 22) = C
       /\ U32At(bytes, 24) = R
       /\ U32At(bytes, 28) = 2 * R * C
       /\ U16At(bytes, 32) = 2 * C
       /\ U16At(bytes, 34) = 16
       /\ <<bytes[37], bytes[38], bytes[39], bytes[40]>> = <<100, 97, 116, 97>>
       /\ U32At(bytes, 40) = 2 * F * C
       /\ \A i \in 0..(F - 1), c \in 0..(C - 1) :
            S16At(bytes, 44 + 2 * (i * C + c)) = PcmValue(dspOutput.buffer.data[c][i])

\* a stereo buffer of two frames is encoded whose second frame of the first
\* channel differs from the first frame of the second channel
C24_Witness ==
  /\ Encoded
  /\ dspOutput.buffer.numberOfChannels = 2 /\ dspOutput.buffer.length = MaxFrames
  /\ dspOutput.buffer.data[0][1] = 100 /\ dspOutput.buffer.data[1][0] = -25
  /\ S16At(dspOutput.bytes, 46) = -8191 /\ S16At(dspOutput.bytes, 48) = 32767

\* ---------------------------------------------------------------- C25
\* C25: every encoded PCM sample is the rendered sample clamped to [-1, 1],
\* multiplied by 32767 and truncated toward zero; every stored value lies in
\* [-32767, 32767] and keeps the sample's sign: nothing wraps around.
C25_SamplesClampedNotWrapped ==
  Encoded =>
    LET buffer == dspOutput.buffer IN
    \A i \in 0..(buffer.length - 1), c \in 0..(buffer.numberOfChannels - 1) :
      LET stored == S16At(dspOutput.bytes, HeaderBytes + 2 * (i * buffer.numberOfChannels + c))
          sample == buffer.data[c][i]
          clamped == IF sample < -100 THEN -100 ELSE IF sample > 100 THEN 100 ELSE sample
          scaled == clamped * 32767
      IN /\ stored * 100 <= scaled + 99 /\ stored * 100 >= scaled - 99
         /\ Abs(stored * 100) <= Abs(scaled)
         /\ stored >= -32767 /\ stored <= 32767
         /\ Sign(stored) = Sign(sample)

\* a buffer with a sample below -1 and a sample between -1 and 0 is encoded
C25_Witness ==
  /\ Encoded
  /\ dspOutput.buffer.length = MaxFrames
  /\ dspOutput.buffer.data[0][0] = -150 /\ dspOutput.buffer.data[0][1] = -25
  /\ S16At(dspOutput.bytes, HeaderBytes) = -32767

\* ---------------------------------------------------------------- C26
\* applyVocalIsolation has returned
Isolated == dspOutput # NULL /\ dspOutput.op = "vocal"

\* C26: the filter output is, per channel and sample index i,
\* clamp(sign(e)*sqrt(|e|), -1, 1) with e = 1.3*l[i], where h[0] = x[0],
\* h[i] = 0.95*h[i-1] + 0.05*x[i], l[0] = h[0], l[i] = 0.9*l[i-1] + 0.1*h[i]:
\* each stage feeds on its own previous value.  Compared to within two
\* hundredths, the rounding of the fixed-point arithmetic.
C26_FilterFollowsRecurrence ==
  Isolated =>
    \A c \in 0..(dspInput.numberOfChannels - 1) :
      LET x == dspInput.data[c]
          h[i \in 0..(dspInput.length - 1)] ==
            IF i = 0 THEN x[0] ELSE Trunc(95 * h[i - 1] + 5 * x[i], 100)
          l[i \in 0..(dspInput.length - 1)] ==
            IF i = 0 THEN h[0] ELSE Trunc(90 * l[i - 1] + 10 * h[i], 100)
          e(i) == Trunc(l[i] * 13, 10)
          y(i) == Clamp(Sign(e(i)) * Sqrt(Abs(e(i))), -SampleScale, SampleScale)
      IN \A i \in 0..(dspInput.length - 1) :
           Abs(dspOutput.buffer.data[c][i] - y(i)) <= 2

C28_VocalBufferOfLoadedFile ==
  vocalBuffer # NULL => vocalBuffer = <<"vocal", audioBuffer>>

\* ---------------------------------------------------------------- C30
\* a loadAudioFile() completes and stores its decoded buffer
LoadCompletes == loads' # loads /\ audioBuffer' # audioBuffer /\ audioBuffer' # NULL

\* C30: after every successful loadAudioFile, while not playing,
\* getCurrentTime() is 0 and the next play() starts the new buffer at offset 0.
C30_LoadResetsClock ==
  [][LoadCompletes /\ ~isPlaying' =>
       LET t == [This EXCEPT !.audioBuffer = audioBuffer']
       IN /\ getCurrentTime(t) = 0
          /\ \A settings \in Settings :
               LET p == play(t, settings)
               IN t.audioContext # NoContext =>
                    p.isPlaying /\ p.playing[p.sourceNode] = 0]_vars

\* ---------------------------------------------------------------- C29
\* C29: the AudioPlayer's polling loop stops transport at the end of the
\* track: a frame callback of an active, playing loop that finds
\* getCurrentTime() >= getDuration() calls stop(), after which the engine is
\* not playing, its current time is 0, the displayed time is 0 and no frame
\* callback is left requested: the polling has ended.
C29_PollingStopsAtEnd ==
  [][\A f \in player.frames :
       (/\ f.isTimerActive /\ f.isPlaying /\ isPlaying
        /\ getDuration(This) > 0 /\ getCurrentTime(This) >= getDuration(This)
        /\ UpdateTime(f))
       => /\ ~isPlaying'
          /\ pauseTime' = 0 /\ startTime' = 0
          /\ player'.currentTime = 0
          /\ player'.frames = {}]_vars

\* ---------------------------------------------------------------- C31
\* C31: play(settings) while Live stops and disconnects the running main
\* source and every running chorus voice, discards the vocal buffer cached for
\* them, builds a fresh graph and starts all its sources at the recorded paused
\* offset, so that getCurrentTime() right after is that offset.
C31_PlayWhileLiveRestarts ==
  Live =>
    \A settings \in Settings :
      LET t == play(This, settings)
          oldSources == {sourceNode} \cup AllVoiceSources(This)
          oldParts == {sourceNode} \cup VoiceParts(maleChorusNodes)
                        \cup VoiceParts(femaleChorusNodes)
          newSources == {t.sourceNode} \cup AllVoiceSources(t)
      IN /\ oldSources \cap DOMAIN t.playing = {}
         /\ \A e \in t.edges : e[1] \notin oldParts
         /\ t.vocalBuffer = IF settings.maleChorus > 0 \/ settings.femaleChorus > 0
                            THEN <<"vocal", audioBuffer>> ELSE NULL
         /\ t.sourceNode # NULL /\ newSources \cap oldParts = {}
         /\ DOMAIN t.playing = (DOMAIN playing \ oldSources) \cup newSources
         /\ \A n \in newSources : t.playing[n] = pauseTime /\ t.srcBuffer[n] # NULL
         /\ t.isPlaying /\ getCurrentTime(t) = pauseTime

\* a graph with both chorus parts, resumed from a paused offset of 1, is Live:
\* play() on it would drop its vocal buffer and its twelve voices and restart
\* at offset 1
C31_Witness ==
  /\ Live /\ pauseTime = 1 /\ vocalBuffer # NULL
  /\ Cardinality(AllVoiceSources(This)) = 2 * NumVoices
  /\ \E settings \in Settings :
       LET t == play(This, settings)
       IN /\ t.vocalBuffer = NULL /\ AllVoiceSources(t) = {}
          /\ t.sourceNode # sourceNode /\ t.playing[t.sourceNode] = 1

\* ---------------------------------------------------------------- C32
\* the convolver createImpulseResponse() made for a context: it holds the
\* impulse computed for that session
SessionConvolver(ctx) == Node("convolver", ctx, 0)

\* C32: the live impulse is computed once per session: while a context is
\* open the engine's convolver is the one initialize() made for it, no step
\* that keeps the context (play, pause, stop, updateEffects, an export, a
\* load) replaces it, every graph built in the session is wired through it and
\* through no other convolver, and an export synthesizes an impulse and a
\* convolver of its own.
C32_OneImpulsePerSession ==
  /\ [](audioContext # NoContext => convolverNode = SessionConvolver(audioContext))
  /\ [][audioContext' = audioContext /\ audioContext # NoContext
          => convolverNode' = convolverNode]_vars
  /\ [](audioContext # NoContext /\ sourceNode # NULL =>
          /\ <<presenceFilter, convolverNode>> \in edges
          /\ <<convolverNode, wetGainNode>> \in edges
          /\ \A e \in edges : e[1][1] = "convolver" => e[1] = convolverNode
          /\ \A e \in edges : e[2][1] = "convolver" => e[2] = convolverNode)
  /\ [](\A settings \in Settings :
          LET r == exportProcessedAudio(This, settings, exportSeq + 1)
          IN ~r.error =>
               /\ r.render.impulse # convolverNode
               /\ \A e \in r.render.edges : e[1] # convolverNode /\ e[2] # convolverNode
               /\ <<OfflineNode("presenceFilter", r.render.id),
                    OfflineNode("convolver", r.render.id)>> \in r.render.edges)

\* the second graph built in the first session plays through the convolver
\* initialize() made
C32_Witness ==
  /\ Live /\ gen = 2 /\ ctxCount = 1 /\ closed = {}
  /\ convolverNode = SessionConvolver(1)
  /\ <<presenceFilter, SessionConvolver(1)>> \in edges
  /\ presenceFilter = Node("presenceFilter", 2, 0)

\* ---------------------------------------------------------------- C33
\* what setChannelState must leave alone: every flag and gain but channel
\* i's (i counts from 1), the wiring, the play state and the clock
OnlyChannelChanged(t, i) ==
  /\ \A j \in DOMAIN channelStates : j # i =>
        j \in DOMAIN t.channelStates /\ t.channelStates[j] = channelStates[j]
  /\ \A j \in DOMAIN t.channelStates : j # i => j \in DOMAIN channelStates
  /\ DOMAIN t.gain = DOMAIN gain
  /\ \A n \in DOMAIN gain :
        (i \notin DOMAIN channelGainNodes \/ n # channelGainNodes[i]) => t.gain[n] = gain[n]
  /\ t.edges = edges /\ t.playing = playing
  /\ t.isPlaying = isPlaying /\ t.startTime = startTime /\ t.pauseTime = pauseTime
  /\ getCurrentTime(t) = getCurrentTime(This)

\* C33: setChannelState(i, enabled) with i a channel of the loaded buffer sets
\* the enabled flag of channel i and, where the channel has a live gain, sets
\* that gain to 1 if enabled and 0 if muted; the flags and gains of every other
\* channel, the play state and the clock are unchanged.
C33_SetChannelStateChangesOnlyOne ==
  \A channelIndex \in ChannelIndexes, enabled \in BOOLEAN :
    (channelIndex >= 0 /\ channelIndex < ChannelCount) =>
      LET t == setChannelState(This, channelIndex, enabled)
          i == channelIndex + 1
      IN /\ i \in DOMAIN t.channelStates /\ t.channelStates[i] = enabled
         /\ (audioContext # NoContext /\ i \in DOMAIN channelGainNodes) =>
               t.gain[channelGainNodes[i]] = IF enabled THEN Unity ELSE 0
         /\ OnlyChannelChanged(t, i)

\* ---------------------------------------------------------------- C34
\* C34: in every reachable state getIsPlaying() is true exactly when a live
\* graph exists whose main source has been started and not stopped; so it is
\* false after pause(), stop() and dispose().
C34_IsPlayingIffSourceRuns ==
  getIsPlaying(This) <=>
    (audioContext # NoContext /\ sourceNode # NULL /\ sourceNode \in DOMAIN playing)

\* ---------------------------------------------------------------- C35
\* C35: whenever a live graph exists, its main source plays the currently
\* loaded buffer, the one getDuration() reports, also when a loadAudioFile
\* completes while the engine is Live.
C35_SourcePlaysLoadedBuffer ==
  Live => /\ srcBuffer[sourceNode] = audioBuffer
          /\ BufferDuration(srcBuffer[sourceNode]) = getDuration(This)

\* ---------------------------------------------------------------- C36
\* C36: when loadAudioFile calls overlap, the buffer of the most recently
\* requested file wins whichever decode finishes first: no completing load
\* replaces the decoded buffer of a file requested after it.
C36_LatestRequestWins ==
  [][(audioBuffer' # audioBuffer /\ audioBuffer # NULL /\ audioBuffer' # NULL)
       => audioBuffer'[2] > audioBuffer[2]]_vars

\* ---------------------------------------------------------------- C37
\* C37: an export renders exactly one buffer, the one loaded when it was
\* called: the offline context is sized by that buffer and its source plays
\* it; a load that completes while the render is in progress changes nothing
\* of the render; and what is encoded at the end is that rendering.
C37_ExportRendersCallTimeBuffer ==
  /\ [](\A x \in exports :
          /\ x.numberOfChannels = NumChannels(x.buffer)
          /\ x.srcBuffer = (OfflineNode("source", x.id) :> x.buffer))
  /\ [][\A x \in exports' \ exports : x.buffer = audioBuffer /\ audioBuffer' = audioBuffer]_vars
  /\ [][audioBuffer' # audioBuffer => exports' = exports]_vars
  /\ [][\A x \in exports \ exports' :
          exportResult' = [blob |-> [type |-> "audio/wav",
                                     numberOfChannels |-> NumChannels(x.buffer),
                                     rendered |-> x]]]_vars

\* an export of a mono file is still rendering when a stereo file has been
\* loaded
C37_Witness ==
  /\ audioBuffer = <<"stereo", 2>>
  /\ \E x \in exports :
       /\ x.buffer = <<"mono", 1>> /\ x.numberOfChannels = 1
       /\ x.srcBuffer[OfflineNode("source", x.id)] = <<"mono", 1>>

\* ---------------------------------------------------------------- C38
\* C38: after every handler of the AudioPlayer has run (file upload, play,
\* pause, stop, end of track in the polling loop) the component's isPlaying
\* flag equals the engine's getIsPlaying().
C38_PlayerAgreesWithEngine ==
  player.isPlaying = getIsPlaying(This)

\* ---------------------------------------------------------------- C39
\* C39: after any sequence of file loads, checkbox toggles and play, pause and
\* stop, the Waveform's channelStates[i] equals the engine's
\* getChannelStates()[i] for every channel i of the loaded buffer.
C39_WaveformAgreesWithEngine ==
  (audioBuffer # NULL /\ waveform.audioBuffer = audioBuffer) =>
    \A i \in 1..NumChannels(audioBuffer) :
      /\ i \in DOMAIN getChannelStates(This)
      /\ waveform.channelStates[i] = getChannelStates(This)[i]

====
